---- MODULE Spec2Model ----
(***************************************************************************)
(* Model of the interactive shell of the repository (src/unnamed/part_000):*)
(* main()'s read-eval loop and execute()'s fork / exec / wait protocol.    *)
(*                                                                         *)
(* Every process is an entry of `proc`; a forked child is a duplicate of   *)
(* its parent that resumes after fork() with pid = 0, so the loop actions  *)
(* are written for any process and the model itself decides which          *)
(* processes ever run them.                                                *)
(*                                                                         *)
(* stdin is a text stream: a finite sequence of non-NUL bytes.             *)
(***************************************************************************)
EXTENDS Integers, Sequences, FiniteSets, TLC

VARIABLES stdin, stdin0, proc, stdout, stderr, ubCount, hproc, hout

vars == <<stdin, stdin0, proc, stdout, stderr, ubCount, hproc, hout>>

\* the state of the shell and the state of the test harness
shellVars == <<stdin, stdin0, proc, stdout, stderr, ubCount>>

harnessVars == <<hproc, hout>>

-----------------------------------------------------------------------------
(* Bounds of the model *)

\* number of line chunks the input stream is built from
MaxLines == 2
\* how many times the loop may keep running after an undefined strlen(NULL)
MaxUB == 1

(* Program constant *)

\* #define NUM 1024
NUM == 1024

-----------------------------------------------------------------------------
(* Input text *)

NL == "\n"

BinTrue == <<"/", "b", "i", "n", "/", "t", "r", "u", "e">>
BinFalse == <<"/", "b", "i", "n", "/", "f", "a", "l", "s", "e">>
ExitWord == <<"e", "x", "i", "t">>
TrueWithArg == BinTrue \o <<" ", "x">>
\* an executable that never terminates
BinHang == <<"/", "b", "i", "n", "/", "h", "a", "n", "g">>
\* a line that fills the buffer: NUM - 1 bytes before its terminator
FullLine == [i \in 1..(NUM - 1) |-> "a"]
Junk == <<"j", "u", "n", "k">>

LineKinds == {BinTrue, BinFalse, <<>>, ExitWord, TrueWithArg, BinHang}

\* the contents an uninitialised `char command[NUM]` may hold
UninitValues == {<<>>, Junk}

RECURSIVE Flatten(_)
Flatten(ls) ==
    IF ls = <<>> THEN <<>> ELSE Head(ls) \o <<NL>> \o Flatten(Tail(ls))

LineSeqs == UNION {[1..n -> LineKinds] : n \in 0..MaxLines}

\* streams whose first line reaches or exceeds the buffer: cut off by
\* end-of-stream, terminated right after NUM - 1 bytes, one byte longer, and
\* followed by a further command
LongStreams ==
    {FullLine \o t : t \in {<<>>, <<NL>>, <<"a", NL>>, <<NL>> \o BinTrue \o <<NL>>}}

\* every line terminated, or the last line cut off by end-of-stream
Streams ==
    {Flatten(ls) : ls \in LineSeqs}
    \cup {SubSeq(Flatten(ls), 1, Len(Flatten(ls)) - 1) : ls \in LineSeqs \ {<<>>}}
    \cup LongStreams

TrueFalseInput == BinTrue \o <<NL>> \o BinFalse \o <<NL>>

-----------------------------------------------------------------------------
(* Library primitives used by the shell *)

Min(a, b) == IF a < b THEN a ELSE b

\* position of the first line terminator of s, 0 when there is none
NlPos(s) ==
    IF \E i \in 1..Len(s) : s[i] = NL
    THEN CHOOSE i \in 1..Len(s) : s[i] = NL /\ \A j \in 1..(i - 1) : s[j] # NL
    ELSE 0

\* fgets(buf, n, stream): number of bytes taken from a non-empty stream:
\* at most n - 1, stopping after the first line terminator
FgetsCount(s, n) ==
    LET lim == Min(n - 1, Len(s))
        nl == NlPos(s)
    IN IF nl # 0 /\ nl <= lim THEN nl ELSE lim

\* strlen of the C string held in the buffer
Strlen(s) == Len(s)

\* buf[i] = '\0' for 0 <= i < strlen(buf): the string is cut at index i
SetNul(s, i) == SubSeq(s, 1, i)

\* the executables the environment can resolve, and how their run ends
Executables == {BinTrue, BinFalse, BinHang}

ExecResolves(path) == path \in Executables

ProgramStatus(path) == IF path = BinTrue THEN 0 ELSE 1

Hangs(path) == path = BinHang

\* wait(pid) is satisfied once the designated child has terminated
WaitDone(c) == c \in 1..Len(proc) /\ proc[c].pc = "zombie"

-----------------------------------------------------------------------------
(* State *)

Shell == 1

Procs == 1..Len(proc)

Children == Procs \ {Shell}

Terminated(p) == proc[p].pc \in {"zombie", "reaped"}

Alive(p) == ~Terminated(p)

Init ==
    /\ stdin0 \in Streams
    /\ stdin = stdin0
    /\ \E c \in UninitValues :
           proc = << [pc |-> "start", command |-> c, cmd |-> "unset", line |-> <<>>,
                      pid |-> 0, parent |-> 0, image |-> "shell", status |-> -1,
                      execFailed |-> FALSE, ret |-> -1] >>
    /\ stdout = <<>>
    /\ stderr = <<>>
    /\ ubCount = 0
    /\ hproc = <<>>
    /\ hout = <<>>

At(p, l) == p \in Procs /\ proc[p].image = "shell" /\ proc[p].pc = l

Goto(p, l) == proc' = [proc EXCEPT ![p].pc = l]

-----------------------------------------------------------------------------
(* main *)

\* setvbuf; printf("Running Shell...\n");
MainStart(p) ==
    /\ At(p, "start")
    /\ Goto(p, "prompt")
    /\ stdout' = Append(stdout, [who |-> p, what |-> "banner", text |-> <<>>])
    /\ UNCHANGED <<stdin, stdin0, stderr, ubCount>>

\* printf("~ # ");
Prompt(p) ==
    /\ At(p, "prompt")
    /\ Goto(p, "fgets")
    /\ stdout' = Append(stdout, [who |-> p, what |-> "prompt", text |-> <<>>])
    /\ UNCHANGED <<stdin, stdin0, stderr, ubCount>>

\* char *cmd = fgets(command, NUM, stdin);
Fgets(p) ==
    /\ At(p, "fgets")
    /\ IF stdin = <<>>
       THEN /\ proc' = [proc EXCEPT ![p].pc = "strip", ![p].cmd = "NULL",
                                    ![p].line = <<>>]
            /\ UNCHANGED stdin
       ELSE LET k == FgetsCount(stdin, NUM)
            IN /\ proc' = [proc EXCEPT ![p].pc = "strip", ![p].cmd = "command",
                                       ![p].command = SubSeq(stdin, 1, k),
                                       ![p].line = SubSeq(stdin, 1, k)]
               /\ stdin' = SubSeq(stdin, k + 1, Len(stdin))
    /\ UNCHANGED <<stdin0, stdout, stderr, ubCount>>

\* variant: an empty command line is skipped (continue) after the strip
Strip_SkipEmpty(p) ==
    /\ At(p, "strip")
    /\ proc[p].cmd # "NULL"
    /\ LET c == SetNul(proc[p].command, Strlen(proc[p].command) - 1)
       IN proc' = [proc EXCEPT ![p].pc = IF c = <<>> THEN "prompt" ELSE "echo",
                               ![p].command = c]
    /\ UNCHANGED <<stdin, stdin0, stdout, stderr, ubCount>>

\* command[strlen(cmd) - 1] = '\0';
\* with cmd == NULL the strlen is undefined: the process is killed, or it
\* goes on with the stale buffer, possibly cut at an arbitrary place
Strip(p) ==
    /\ At(p, "strip")
    /\ IF proc[p].cmd = "NULL"
       THEN \/ /\ Goto(p, "crashed")
               /\ UNCHANGED ubCount
            \/ /\ ubCount < MaxUB
               /\ ubCount' = ubCount + 1
               /\ \E c \in {proc[p].command, <<>>} :
                      proc' = [proc EXCEPT ![p].pc = "echo", ![p].command = c]
       ELSE /\ proc' = [proc EXCEPT ![p].pc = "echo",
                           ![p].command = SetNul(proc[p].command,
                                                 Strlen(proc[p].command) - 1)]
            /\ UNCHANGED ubCount
    /\ UNCHANGED <<stdin, stdin0, stdout, stderr>>

\* printf("\n Running command: %s\n", command);
Echo(p) ==
    /\ At(p, "echo")
    /\ Goto(p, "fork")
    /\ stdout' = Append(stdout, [who |-> p, what |-> "echo", text |-> proc[p].command])
    /\ UNCHANGED <<stdin, stdin0, stderr, ubCount>>

-----------------------------------------------------------------------------
(* execute *)

\* pid_t pid = fork();
Fork(p) ==
    /\ At(p, "fork")
    /\ \/ LET c == Len(proc) + 1
          IN proc' = Append([proc EXCEPT ![p].pc = "branch", ![p].pid = c],
                            [proc[p] EXCEPT !.pc = "branch", !.pid = 0, !.parent = p])
       \/ proc' = [proc EXCEPT ![p].pc = "branch", ![p].pid = -1]
    /\ UNCHANGED <<stdin, stdin0, stdout, stderr, ubCount>>

\* variant: the parent branch returns without waiting for the child
Branch_NoParentWait(p) ==
    /\ At(p, "branch")
    /\ Goto(p, IF proc[p].pid = 0 THEN "exec"
               ELSE IF proc[p].pid > 0 THEN "return" ELSE "perror_fork")
    /\ UNCHANGED <<stdin, stdin0, stdout, stderr, ubCount>>

\* variant: the parent branch is taken for pid != 0 instead of pid > 0
Branch_WaitOnFailure(p) ==
    /\ At(p, "branch")
    /\ Goto(p, IF proc[p].pid = 0 THEN "exec" ELSE "wait")
    /\ UNCHANGED <<stdin, stdin0, stdout, stderr, ubCount>>

\* variant: the parent branch waits only for a command that is not empty
Branch_WaitUnlessEmpty(p) ==
    /\ At(p, "branch")
    /\ Goto(p, IF proc[p].pid = 0 THEN "exec"
               ELSE IF proc[p].pid > 0
                    THEN (IF proc[p].command = <<>> THEN "return" ELSE "wait")
                    ELSE "perror_fork")
    /\ UNCHANGED <<stdin, stdin0, stdout, stderr, ubCount>>

\* if (pid == 0) ... else if (pid > 0) ... else ...
Branch(p) ==
    /\ At(p, "branch")
    /\ Goto(p, IF proc[p].pid = 0 THEN "exec"
               ELSE IF proc[p].pid > 0 THEN "wait" ELSE "perror_fork")
    /\ UNCHANGED <<stdin, stdin0, stdout, stderr, ubCount>>

\* exec(command, command, NULL);
Exec(p) ==
    /\ At(p, "exec")
    /\ IF ExecResolves(proc[p].command)
       THEN proc' = [proc EXCEPT ![p].pc = "running", ![p].image = "program"]
       ELSE proc' = [proc EXCEPT ![p].pc = "perror_exec", ![p].execFailed = TRUE]
    /\ UNCHANGED <<stdin, stdin0, stdout, stderr, ubCount>>

\* variant: the failed exec is not reported
PerrorExec_Silent(p) ==
    /\ At(p, "perror_exec")
    /\ Goto(p, "exit")
    /\ UNCHANGED <<stdin, stdin0, stdout, stderr, ubCount>>

\* perror("exec failed");
PerrorExec(p) ==
    /\ At(p, "perror_exec")
    /\ Goto(p, "exit")
    /\ stderr' = Append(stderr, [who |-> p, what |-> "exec failed"])
    /\ UNCHANGED <<stdin, stdin0, stdout, ubCount>>

\* variant: the exit(1) is missing and the child falls out of the if
Exit_FallsThrough(p) ==
    /\ At(p, "exit")
    /\ Goto(p, "return")
    /\ UNCHANGED <<stdin, stdin0, stdout, stderr, ubCount>>

\* exit(1);
Exit(p) ==
    /\ At(p, "exit")
    /\ proc' = [proc EXCEPT ![p].pc = "zombie", ![p].status = 1]
    /\ UNCHANGED <<stdin, stdin0, stdout, stderr, ubCount>>

\* variant: the wait does not block on a child that is still running
Wait_NoBlock(p) ==
    /\ At(p, "wait")
    /\ proc' = [proc EXCEPT ![p].pc = "return",
                            ![proc[p].pid].pc =
                                IF WaitDone(proc[p].pid) THEN "reaped" ELSE @]
    /\ UNCHANGED <<stdin, stdin0, stdout, stderr, ubCount>>

\* variant: the wait gives up on a child that is still running and kills it
Wait_KillOnTimeout(p) ==
    /\ At(p, "wait")
    /\ proc' = [proc EXCEPT ![p].pc = "return",
                            ![proc[p].pid].pc = "reaped",
                            ![proc[p].pid].status = IF WaitDone(proc[p].pid) THEN @ ELSE 9]
    /\ UNCHANGED <<stdin, stdin0, stdout, stderr, ubCount>>

\* variant: the wait is satisfied by any terminated process, not by its argument
Wait_AnyTerminated(p) ==
    /\ At(p, "wait")
    /\ \E c \in Children : Terminated(c)
    /\ proc' = [proc EXCEPT ![p].pc = "return",
                            ![proc[p].pid].pc =
                                IF WaitDone(proc[p].pid) THEN "reaped" ELSE @]
    /\ UNCHANGED <<stdin, stdin0, stdout, stderr, ubCount>>

\* wait(pid);
Wait(p) ==
    /\ At(p, "wait")
    /\ WaitDone(proc[p].pid)
    /\ proc' = [proc EXCEPT ![p].pc = "return", ![proc[p].pid].pc = "reaped"]
    /\ UNCHANGED <<stdin, stdin0, stdout, stderr, ubCount>>

\* perror("fork failed");
PerrorFork(p) ==
    /\ At(p, "perror_fork")
    /\ Goto(p, "return")
    /\ stderr' = Append(stderr, [who |-> p, what |-> "fork failed"])
    /\ UNCHANGED <<stdin, stdin0, stdout, ubCount>>

\* variant: the loop is left when the command was the word exit
Return_ExitBuiltin(p) ==
    /\ At(p, "return")
    /\ IF proc[p].command = ExitWord
       THEN proc' = [proc EXCEPT ![p].pc = "zombie", ![p].status = 0]
       ELSE Goto(p, "prompt")
    /\ UNCHANGED <<stdin, stdin0, stdout, stderr, ubCount>>

\* variant: execute() hands the child's exit status back as its result
Return_ChildStatus(p) ==
    /\ At(p, "return")
    /\ proc' = [proc EXCEPT ![p].pc = "prompt",
                            ![p].ret = IF proc[p].pid > 0 THEN proc[proc[p].pid].status
                                       ELSE 1]
    /\ UNCHANGED <<stdin, stdin0, stdout, stderr, ubCount>>

\* return 0;  and back to the head of while (1); the result is discarded
Return(p) ==
    /\ At(p, "return")
    /\ proc' = [proc EXCEPT ![p].pc = "prompt", ![p].ret = 0]
    /\ UNCHANGED <<stdin, stdin0, stdout, stderr, ubCount>>

\* the program a child was replaced by runs to its end
ProgramExit(p) ==
    /\ p \in Procs
    /\ proc[p].pc = "running"
    /\ ~Hangs(proc[p].command)
    /\ proc' = [proc EXCEPT ![p].pc = "zombie", ![p].status = ProgramStatus(proc[p].command)]
    /\ UNCHANGED <<stdin, stdin0, stdout, stderr, ubCount>>

-----------------------------------------------------------------------------

Next ==
    /\ \E p \in Procs :
           \/ MainStart(p)
           \/ Prompt(p)
           \/ Fgets(p)
           \/ Strip(p)
           \/ Echo(p)
           \/ Fork(p)
           \/ Branch(p)
           \/ Exec(p)
           \/ PerrorExec(p)
           \/ Exit(p)
           \/ Wait(p)
           \/ PerrorFork(p)
           \/ Return(p)
           \/ ProgramExit(p)
    /\ UNCHANGED harnessVars

Spec == Init /\ [][Next]_vars

\* the scheduler runs a runnable process; a spawned program terminates
FairSpec == Spec /\ WF_vars(Next)

-----------------------------------------------------------------------------
(* Properties *)

IsPrompt(e) == e.what = "prompt"

NumPrompts(out) == Len(SelectSeq(out, IsPrompt))

Reported(log, p, msg) == \E i \in 1..Len(log) : log[i].who = p /\ log[i].what = msg

ReturnsFromExecute(q) == proc[q].pc # "return" /\ proc'[q].pc = "return"

\* C1: while a child running a resolvable executable path is alive, the
\* execute() call that created it does not return in the parent and no
\* prompt is printed.
C1_SpawnReturnsAfterChildExit ==
    [][\A c \in Children :
           (ExecResolves(proc[c].command) /\ Alive(c))
           => /\ ~ReturnsFromExecute(proc[c].parent)
              /\ NumPrompts(stdout') = NumPrompts(stdout)]_vars

C1_Witness ==
    \E c \in Children :
        /\ ExecResolves(proc[c].command)
        /\ Terminated(c)
        /\ proc[Shell].pid = c
        /\ proc[Shell].pc = "fgets"

\* C2: once a read has hit end-of-stream the shell eventually terminates
\* in an orderly way (it has exited; it has not crashed and is not looping).
C2_EofTerminates == (proc[Shell].cmd = "NULL") ~> Terminated(Shell)

\* C3: whenever the terminator strip is about to run, the preceding read
\* returned a non-null line of length at least 1.
C3_StripOnlyAfterData ==
    \A p \in Procs :
        proc[p].pc = "strip" => (proc[p].cmd # "NULL" /\ Len(proc[p].line) >= 1)

\* C4: at most one child created by the shell is alive at any time.
C4_AtMostOneChildAlive == Cardinality({c \in Children : Alive(c)}) <= 1

C4_Witness ==
    \E c, d \in Children : c < d /\ Terminated(c) /\ Alive(d)

ChildPcs == {"branch", "exec", "running", "perror_exec", "exit", "zombie", "reaped"}

\* C5: a child whose exec returned reports "exec failed" and terminates with a
\* non-zero status; no child is ever back in the shell loop: every position of
\* a child is inside the child branch, and every prompt, echo and fork is the
\* shell's own.
C5_ChildNeverReturnsToLoop ==
    /\ \A c \in Children :
           /\ proc[c].pc \in ChildPcs
           /\ proc[c].parent = Shell
           /\ (proc[c].execFailed /\ proc[c].pc \in {"exit", "zombie", "reaped"})
              => Reported(stderr, c, "exec failed")
           /\ (proc[c].execFailed /\ Terminated(c)) => proc[c].status # 0
    /\ \A i \in 1..Len(stdout) : stdout[i].who = Shell

C5_Witness ==
    \E c \in Children : proc[c].execFailed /\ Terminated(c) /\ proc[c].status = 1

ForkFailedAt(p) == proc[p].pid < 0 /\ proc[p].pc \in {"branch", "perror_fork", "return"}

\* C6: after a failed fork the shell never waits, has reported "fork failed"
\* by the time execute() returns, creates no process in that call, and goes on
\* to print the next prompt.
C6_ForkFailureIsNoOp ==
    /\ [](/\ proc[Shell].pc = "wait" => proc[Shell].pid > 0
          /\ (proc[Shell].pc = "return" /\ proc[Shell].pid < 0)
             => (stderr # <<>> /\ stderr[Len(stderr)] = [who |-> Shell, what |-> "fork failed"])
          /\ ForkFailedAt(Shell) => \A c \in Children : Terminated(c))
    /\ (ForkFailedAt(Shell) ~> proc[Shell].pc = "fgets")

C6_Witness ==
    /\ proc[Shell].pid < 0
    /\ proc[Shell].pc = "fgets"
    /\ Reported(stderr, Shell, "fork failed")

\* C7: a child whose command does not resolve reports "exec failed" before it
\* terminates, and the shell waiting for it goes on to print the next prompt.
C7_ExecFailureContinues ==
    /\ [](\A c \in Children :
              (~ExecResolves(proc[c].command) /\ Terminated(c))
              => (proc[c].execFailed /\ Reported(stderr, c, "exec failed")))
    /\ ((proc[Shell].pc = "wait" /\ ~ExecResolves(proc[Shell].command))
        ~> proc[Shell].pc = "fgets")

C7_Witness ==
    \E c \in Children :
        /\ proc[c].command = TrueWithArg
        /\ proc[c].execFailed
        /\ Terminated(c)
        /\ proc[Shell].pid = c
        /\ proc[Shell].pc = "fgets"

\* C8: on the input "/bin/true\n/bin/false\n" the shell never has more than
\* one child alive and ends up terminated in an orderly way, having printed
\* exactly two prompts and created exactly two children, both terminated.
C8_TrueFalseScenario ==
    (stdin0 = TrueFalseInput)
    => /\ [](Cardinality({c \in Children : Alive(c)}) <= 1)
       /\ <>[](/\ Terminated(Shell)
               /\ NumPrompts(stdout) = 2
               /\ Cardinality(Children) = 2
               /\ \A c \in Children : Terminated(c))

StripTerminator(l) ==
    IF l # <<>> /\ l[Len(l)] = NL THEN SubSeq(l, 1, Len(l) - 1) ELSE l

\* C9: the command echoed and dispatched is the line read with exactly one
\* trailing terminator removed if present, unchanged otherwise, and contains
\* no line terminator.
C9_StripsOnlyTerminator ==
    \A p \in Procs :
        (proc[p].pc = "echo" /\ proc[p].cmd # "NULL")
        => /\ proc[p].command = StripTerminator(proc[p].line)
           /\ \A i \in 1..Len(proc[p].command) : proc[p].command[i] # NL

LoopPcs == {"start", "prompt", "fgets", "strip", "echo", "fork", "branch",
            "wait", "perror_fork", "return"}

\* C10: the shell is outside its loop only after a read that returned
\* end-of-stream, and every return from execute(), whatever the command and the
\* outcome of the spawn, leads back to the prompt.
C10_LeavesLoopOnlyOnEof ==
    /\ [](proc[Shell].pc \notin LoopPcs
          => (proc[Shell].cmd = "NULL" /\ stdin = <<>>))
    /\ [][(proc[Shell].pc = "return" /\ proc'[Shell] # proc[Shell])
          => proc'[Shell].pc = "prompt"]_vars

C10_Witness ==
    /\ proc[Shell].pc = "fgets"
    /\ proc[Shell].command = ExitWord
    /\ \E i \in 1..Len(stdout) : stdout[i].what = "echo" /\ stdout[i].text = ExitWord

IsEcho(e) == e.what = "echo"

IsForkFailed(e) == e.what = "fork failed"

NumEchoes(out) == Len(SelectSeq(out, IsEcho))

ForkAttempts == Cardinality(Children) + Len(SelectSeq(stderr, IsForkFailed))

\* the steps of one iteration, in program order
IterationOrder ==
    {<<"start", "prompt">>, <<"prompt", "fgets">>, <<"fgets", "strip">>,
     <<"strip", "echo">>, <<"strip", "crashed">>, <<"echo", "fork">>,
     <<"fork", "branch">>, <<"branch", "wait">>, <<"branch", "perror_fork">>,
     <<"wait", "return">>, <<"perror_fork", "return">>, <<"return", "prompt">>}

\* C12: the shell moves through Prompt, ReadInput, Echo, Dispatch in this
\* order only: the prompt is written in the step before the read, the echo in
\* the step before the fork, a process is created only in the fork step; and
\* whenever the shell is back at the head of the loop every prompt printed was
\* followed by one echo and one process-creation attempt, also for an empty line.
C12_IterationOrder ==
    /\ [][/\ proc'[Shell].pc # proc[Shell].pc
             => <<proc[Shell].pc, proc'[Shell].pc>> \in IterationOrder
          /\ NumPrompts(stdout') # NumPrompts(stdout)
             => (proc[Shell].pc = "prompt" /\ proc'[Shell].pc = "fgets")
          /\ NumEchoes(stdout') # NumEchoes(stdout)
             => (proc[Shell].pc = "echo" /\ proc'[Shell].pc = "fork"
                 /\ stdout'[Len(stdout')].text = proc[Shell].command)
          /\ Len(proc') # Len(proc)
             => (proc[Shell].pc = "fork" /\ proc'[Shell].pc = "branch"
                 /\ proc'[Len(proc')].command = stdout[Len(stdout)].text)]_vars
    /\ [](proc[Shell].pc = "prompt"
          => /\ NumEchoes(stdout) = NumPrompts(stdout)
             /\ ForkAttempts = NumPrompts(stdout))

C12_Witness ==
    /\ proc[Shell].pc = "prompt"
    /\ NumPrompts(stdout) = 2
    /\ ForkAttempts = 2
    /\ \E i \in 1..Len(stdout) : stdout[i].what = "echo" /\ stdout[i].text = <<>>

\* C13: a child is reaped only by the wait of the execute() call that created
\* it; once reaped it is never touched again; whenever the shell is not inside
\* execute() (in particular when it prints a prompt or creates the next child)
\* every child created so far has been reaped.
C13_EveryChildReapedOnce ==
    /\ [][\A c \in Children :
              /\ (proc[c].pc # "reaped" /\ proc'[c].pc = "reaped")
                 => (proc[Shell].pc = "wait" /\ proc[Shell].pid = c
                     /\ proc'[Shell].pc = "return")
              /\ proc[c].pc = "reaped" => proc'[c] = proc[c]]_vars
    /\ [](/\ proc[Shell].pc \in {"return", "prompt", "fgets", "strip", "echo", "fork"}
             => \A c \in Children : proc[c].pc = "reaped"
          /\ proc[Shell].pc = "wait" => proc[proc[Shell].pid].pc # "reaped")

C13_Witness ==
    /\ proc[Shell].pc = "fork"
    /\ Children # {}
    /\ \A c \in Children : proc[c].pc = "reaped"

\* the shell is in the wait of execute() and its child has not terminated
BlockedOn(c) ==
    /\ c \in Children
    /\ proc[Shell].pc = "wait"
    /\ proc[Shell].pid = c
    /\ Alive(c)

\* C14: while the child it waits for has not terminated the shell takes no
\* step at all: it prints nothing, reads nothing and creates no process; and
\* once the child runs a program that never terminates, the shell is blocked
\* on it in every later state.
C14_HungChildHangsShell ==
    [][\A c \in Children :
           /\ BlockedOn(c)
              => /\ proc'[Shell] = proc[Shell]
                 /\ stdout' = stdout
                 /\ stdin' = stdin
                 /\ Len(proc') = Len(proc)
           /\ (BlockedOn(c) /\ proc[c].pc = "running" /\ Hangs(proc[c].command))
              => (BlockedOn(c) /\ proc[c].pc = "running")']_vars

C14_Witness ==
    \E c \in Children :
        /\ BlockedOn(c)
        /\ proc[c].pc = "running"
        /\ Hangs(proc[c].command)
        /\ stdin # <<>>

IsPrefix(a, b) == Len(a) <= Len(b) /\ a = SubSeq(b, 1, Len(a))

\* C15: the command echoed and dispatched consists of bytes read in the same
\* iteration only: it is a prefix of the line that this iteration's read
\* returned (nothing, when the read returned no bytes).
C15_NoStaleBytes ==
    \A p \in Procs :
        proc[p].pc \in {"echo", "fork"} => IsPrefix(proc[p].command, proc[p].line)

\* C16: the shell's own state after a spawn does not depend on how the spawn
\* ended: leaving the wait changes nothing but the position, and the return
\* from execute() yields 0 and leads to the prompt with the rest of the shell's
\* state and the output untouched, whatever the child's exit status and also
\* after a creation failure.
C16_StatusNotObserved ==
    [][/\ (proc[Shell].pc = "wait" /\ proc'[Shell].pc # "wait")
          => proc'[Shell] = [proc[Shell] EXCEPT !.pc = "return"]
       /\ (proc[Shell].pc = "return" /\ proc'[Shell].pc # "return")
          => /\ proc'[Shell] = [proc[Shell] EXCEPT !.pc = "prompt", !.ret = 0]
             /\ stdout' = stdout
             /\ stderr' = stderr
             /\ stdin' = stdin]_vars

C16_Witness ==
    \E c, d \in Children :
        /\ proc[c].status = 0
        /\ proc[d].status = 1
        /\ proc[Shell].pid = d
        /\ proc[Shell].pc = "prompt"
        /\ proc[Shell].ret = 0

-----------------------------------------------------------------------------
(* The comprehensive test harness: lab14-fs/user/lab_comprehensive_test.c  *)
(*                                                                         *)
(* Positions are source lines ("L42" is the statement at line 42).  The    *)
(* globals total_tests, passed_tests and failed_tests are per process: a   *)
(* forked child holds its own copy.                                        *)

TEST_PASSED == 1

TEST_FAILED == 0

Original == 1

HProcs == 1..Len(hproc)

HChildren == HProcs \ {Original}

HTerminated(p) == hproc[p].pc \in {"zombie", "reaped"}

\* the print_result calls whose argument depends on what the system call
\* returned, or is a constant: the values the argument can take
SiteResults ==
    [L42 |-> {0, 1}, L46 |-> {0, 1}, L50 |-> {0, 1},
     L59 |-> {TEST_FAILED}, L71 |-> {TEST_PASSED},
     L111 |-> {TEST_PASSED}, L122 |-> {TEST_PASSED},
     L135 |-> {0, 1}, L144 |-> {0, 1},
     L149 |-> {TEST_FAILED}, L152 |-> {TEST_FAILED},
     L218 |-> {TEST_PASSED},
     L163 |-> {TEST_PASSED}, L164 |-> {TEST_PASSED}, L165 |-> {TEST_PASSED},
     L166 |-> {TEST_PASSED},
     L175 |-> {TEST_PASSED}, L176 |-> {TEST_PASSED}, L177 |-> {TEST_PASSED},
     L197 |-> {TEST_PASSED}, L198 |-> {TEST_PASSED}, L199 |-> {TEST_PASSED},
     L201 |-> {TEST_FAILED}, L204 |-> {TEST_FAILED}, L208 |-> {TEST_FAILED}]

\* the statement that follows each print_result call, in main's call order
\* test_lab3_lab4 .. test_lab14, print_summary
SiteNext ==
    [L42 |-> "L46", L46 |-> "L50", L50 |-> "L57",
     L59 |-> "L94", L70 |-> "L71", L71 |-> "L75", L83 |-> "L94",
     L111 |-> "L122", L122 |-> "L130",
     L135 |-> "L138", L144 |-> "L218", L149 |-> "L218", L152 |-> "L218",
     L218 |-> "L163",
     L163 |-> "L164", L164 |-> "L165", L165 |-> "L166", L166 |-> "L175",
     L175 |-> "L176", L176 |-> "L177", L177 |-> "L185",
     L197 |-> "L198", L198 |-> "L199", L199 |-> "L259",
     L201 |-> "L259", L204 |-> "L259", L208 |-> "L259"]

PrintSites == DOMAIN SiteNext

\* WIFEXITED(status) && WEXITSTATUS(status) == 0
ExitedZero(status) == IF status = 0 THEN 1 ELSE 0

\* the argument of the print_result call at a site
ResultsAt(p, site) ==
    IF site \in {"L70", "L83"} THEN {ExitedZero(hproc[p].status)} ELSE SiteResults[site]

\* branches on what open / read / strstr returned
\* L130, L138: open succeeded or failed;  L185: hello.txt opened, read and
\* contains "Hello" / lacks it / read returned nothing / open failed
OpenBranches ==
    [L130 |-> {"L135", "L152"}, L138 |-> {"L144", "L149"},
     L185 |-> {"L197", "L201", "L204", "L208"}]

\* pid_t x = fork(): the variable assigned and the test that follows
ForkSites ==
    [L57 |-> [var |-> "pid", next |-> "L58"],
     L75 |-> [var |-> "exec_pid", next |-> "L76"],
     L94 |-> [var |-> "pid1", next |-> "L95"],
     L101 |-> [var |-> "pid2", next |-> "L102"]]

\* the if / else if chains after the forks: where a failed fork, the child
\* and the parent continue
PidTests ==
    [L58 |-> [var |-> "pid", failed |-> "L59", child |-> "L64", parent |-> "L69"],
     L76 |-> [var |-> "exec_pid", failed |-> "L94", child |-> "L77", parent |-> "L82"],
     L95 |-> [var |-> "pid1", failed |-> "L101", child |-> "L98", parent |-> "L101"],
     L102 |-> [var |-> "pid2", failed |-> "L108", child |-> "L105", parent |-> "L108"]]

\* exit(n) in the child branches
ExitSites == [L64 |-> 0, L79 |-> 1, L98 |-> 0, L105 |-> 0]

\* waitpid(x, &status, 0) / waitpid(x, NULL, 0)
WaitSites ==
    [L69 |-> [var |-> "pid", store |-> TRUE, next |-> "L70"],
     L82 |-> [var |-> "exec_pid", store |-> TRUE, next |-> "L83"],
     L108 |-> [var |-> "pid1", store |-> FALSE, next |-> "L109"],
     L109 |-> [var |-> "pid2", store |-> FALSE, next |-> "L111"]]

HInit ==
    /\ hproc = << [pc |-> "L42", total_tests |-> 0, passed_tests |-> 0,
                   failed_tests |-> 0,
                   loc |-> [v \in {"pid", "exec_pid", "pid1", "pid2"} |-> 0],
                   status |-> -1, parent |-> 0, code |-> -1] >>
    /\ hout = <<>>
    /\ stdin = <<>>
    /\ stdin0 = <<>>
    /\ proc = <<>>
    /\ stdout = <<>>
    /\ stderr = <<>>
    /\ ubCount = 0

\* variant: the else branch does not count the failure
print_result_NoFailCount(p, result) ==
    /\ p \in HProcs
    /\ hproc[p].pc \in PrintSites
    /\ result \in ResultsAt(p, hproc[p].pc)
    /\ hproc' = [hproc EXCEPT
                   ![p].pc = SiteNext[hproc[p].pc],
                   ![p].total_tests = @ + 1,
                   ![p].passed_tests = IF result = TEST_PASSED THEN @ + 1 ELSE @]
    /\ hout' = Append(hout, [who |-> p, what |-> IF result = TEST_PASSED THEN "PASS" ELSE "FAIL"])

\* void print_result(const char *test_name, int result)
print_result(p, result) ==
    /\ p \in HProcs
    /\ hproc[p].pc \in PrintSites
    /\ result \in ResultsAt(p, hproc[p].pc)
    /\ hproc' = [hproc EXCEPT
                   ![p].pc = SiteNext[hproc[p].pc],
                   ![p].total_tests = @ + 1,
                   ![p].passed_tests = IF result = TEST_PASSED THEN @ + 1 ELSE @,
                   ![p].failed_tests = IF result = TEST_PASSED THEN @ ELSE @ + 1]
    /\ hout' = Append(hout, [who |-> p, what |-> IF result = TEST_PASSED THEN "PASS" ELSE "FAIL"])

\* int fd = open(...); if (fd >= 0) ... else ...   (and read, strstr at L185)
open_branch(p) ==
    /\ p \in HProcs
    /\ hproc[p].pc \in DOMAIN OpenBranches
    /\ \E l \in OpenBranches[hproc[p].pc] : hproc' = [hproc EXCEPT ![p].pc = l]
    /\ UNCHANGED hout

\* pid_t x = fork();
fork(p) ==
    /\ p \in HProcs
    /\ hproc[p].pc \in DOMAIN ForkSites
    /\ LET site == ForkSites[hproc[p].pc]
           c == Len(hproc) + 1
       IN \/ hproc' = Append(
                 [hproc EXCEPT ![p].pc = site.next, ![p].loc[site.var] = c],
                 [hproc[p] EXCEPT !.pc = site.next, !.loc[site.var] = 0, !.parent = p])
          \/ hproc' = [hproc EXCEPT ![p].pc = site.next, ![p].loc[site.var] = -1]
    /\ UNCHANGED hout

\* if (x < 0) ... else if (x == 0) ... else ...
pid_test(p) ==
    /\ p \in HProcs
    /\ hproc[p].pc \in DOMAIN PidTests
    /\ LET t == PidTests[hproc[p].pc]
           x == hproc[p].loc[t.var]
       IN hproc' = [hproc EXCEPT ![p].pc = IF x = 0 THEN t.child
                                           ELSE IF x > 0 THEN t.parent ELSE t.failed]
    /\ UNCHANGED hout

\* execl("hello_world", "hello_world", NULL);
execl(p) ==
    /\ p \in HProcs
    /\ hproc[p].pc = "L77"
    /\ \/ hproc' = [hproc EXCEPT ![p].pc = "hello_world"]
       \/ hproc' = [hproc EXCEPT ![p].pc = "L79"]
    /\ UNCHANGED hout

\* the program hello_world runs to its end
hello_world(p) ==
    /\ p \in HProcs
    /\ hproc[p].pc = "hello_world"
    /\ \E st \in {0, 1} : hproc' = [hproc EXCEPT ![p].pc = "zombie", ![p].status = st]
    /\ UNCHANGED hout

\* variant: the exit after the failed execl is missing
exit_MissingAfterExec(p) ==
    /\ p \in HProcs
    /\ hproc[p].pc \in DOMAIN ExitSites
    /\ IF hproc[p].pc = "L79"
       THEN hproc' = [hproc EXCEPT ![p].pc = "L94"]
       ELSE hproc' = [hproc EXCEPT ![p].pc = "zombie", ![p].status = ExitSites[hproc[p].pc]]
    /\ UNCHANGED hout

\* exit(0); exit(1);
exit(p) ==
    /\ p \in HProcs
    /\ hproc[p].pc \in DOMAIN ExitSites
    /\ hproc' = [hproc EXCEPT ![p].pc = "zombie", ![p].status = ExitSites[hproc[p].pc]]
    /\ UNCHANGED hout

\* the children of p that p has not reaped
Unreaped(p) == {c \in HProcs : hproc[c].parent = p /\ hproc[c].pc # "reaped"}

\* waitpid(x, ..., 0): for x > 0 it waits for that child, for x = -1 for any
\* child; it fails at once (ECHILD) when there is no such unreaped child
waitpid(p) ==
    /\ p \in HProcs
    /\ hproc[p].pc \in DOMAIN WaitSites
    /\ LET site == WaitSites[hproc[p].pc]
           x == hproc[p].loc[site.var]
           cands == IF x > 0 THEN Unreaped(p) \cap {x} ELSE Unreaped(p)
       IN IF cands = {}
          THEN hproc' = [hproc EXCEPT ![p].pc = site.next]
          ELSE \E c \in cands :
                   /\ hproc[c].pc = "zombie"
                   /\ hproc' = [hproc EXCEPT
                                  ![p].pc = site.next,
                                  ![p].status = IF site.store THEN hproc[c].status ELSE @,
                                  ![c].pc = "reaped"]
    /\ UNCHANGED hout

\* print_summary();
print_summary(p) ==
    /\ p \in HProcs
    /\ hproc[p].pc = "L259"
    /\ hproc' = [hproc EXCEPT ![p].pc = "L261"]
    /\ hout' = Append(hout, [who |-> p, what |-> IF hproc[p].failed_tests = 0
                                                 THEN "ALL PASSED" ELSE "SOME FAILED"])

\* return (failed_tests == 0) ? 0 : 1;
main_return(p) ==
    /\ p \in HProcs
    /\ hproc[p].pc = "L261"
    /\ hproc' = [hproc EXCEPT ![p].pc = "zombie",
                              ![p].code = IF hproc[p].failed_tests = 0 THEN 0 ELSE 1]
    /\ UNCHANGED hout

HNext ==
    /\ \E p \in HProcs :
           \/ \E result \in {0, 1} : print_result(p, result)
           \/ open_branch(p)
           \/ fork(p)
           \/ pid_test(p)
           \/ execl(p)
           \/ hello_world(p)
           \/ exit(p)
           \/ waitpid(p)
           \/ print_summary(p)
           \/ main_return(p)
    /\ UNCHANGED shellVars

HarnessSpec == HInit /\ [][HNext]_vars

-----------------------------------------------------------------------------
(* Properties of the test harness *)

Counters(r) == <<r.total_tests, r.passed_tests, r.failed_tests>>

\* C17: in every process total_tests = passed_tests + failed_tests; a step that
\* changes a counter is one print_result call: it adds one to total_tests and
\* one to exactly one of passed_tests and failed_tests; and main's return value
\* is 0 exactly when failed_tests is 0.
C17_CountersConsistent ==
    /\ [](\A p \in HProcs :
              hproc[p].total_tests = hproc[p].passed_tests + hproc[p].failed_tests)
    /\ [][\A p \in HProcs :
              Counters(hproc'[p]) # Counters(hproc[p])
              => /\ hproc[p].pc \in PrintSites
                 /\ hproc'[p].total_tests = hproc[p].total_tests + 1
                 /\ \/ /\ hproc'[p].passed_tests = hproc[p].passed_tests + 1
                       /\ hproc'[p].failed_tests = hproc[p].failed_tests
                    \/ /\ hproc'[p].passed_tests = hproc[p].passed_tests
                       /\ hproc'[p].failed_tests = hproc[p].failed_tests + 1]_vars
    /\ [][\A p \in HProcs :
              (hproc[p].pc \in PrintSites /\ hproc'[p].pc # hproc[p].pc)
              => hproc'[p].total_tests = hproc[p].total_tests + 1]_vars
    /\ [](hproc # <<>> /\ hproc[Original].pc = "zombie"
          => /\ hproc[Original].code \in {0, 1}
             /\ hproc[Original].code = 0 <=> hproc[Original].failed_tests = 0)

C17_Witness ==
    /\ hproc # <<>>
    /\ hproc[Original].pc = "zombie"
    /\ hproc[Original].code = 1
    /\ hproc[Original].failed_tests = 2
    /\ hproc[Original].passed_tests > 0

\* where a child can be: the test after its fork, its child branch, the
\* program it was replaced by, and terminated
ChildPositions ==
    {"L58", "L64", "L76", "L77", "L79", "hello_world", "L95", "L98", "L102",
     "L105", "zombie", "reaped"}

\* C18: a forked child is only ever inside the child branch of the test
\* function that created it or terminated, and its counters never change; all
\* children are the original process's own; every result and the summary are
\* printed by the original process; and from print_summary on every child that
\* was created has been waited on.
C18_ChildrenExitInTestFunction ==
    /\ [](/\ \A c \in HChildren :
                /\ hproc[c].pc \in ChildPositions
                /\ hproc[c].parent = Original
                /\ (hproc[c].pc \in {"zombie", "reaped"}) => hproc[c].code = -1
          /\ \A i \in 1..Len(hout) : hout[i].who = Original
          /\ (hproc # <<>> /\ hproc[Original].pc \in {"L259", "L261", "zombie"})
             => \A c \in HChildren : hproc[c].pc = "reaped")
    /\ [][\A c \in HChildren :
              c \in 1..Len(hproc') => Counters(hproc'[c]) = Counters(hproc[c])]_vars

C18_Witness ==
    /\ Len(hproc) = 5
    /\ hproc[Original].pc = "L259"
    /\ \A c \in HChildren : hproc[c].pc = "reaped"
    /\ hproc[3].status = 1
    /\ Len(hout) > 0

====
